---- MODULE Spec2Model ----
(***************************************************************************)
(* Model of site/serve.py: a static-file HTTP server over a fixed route    *)
(* table.  Strings are sequences of tokens: the separators "/", "?", "#",  *)
(* ";" are tokens of their own, and a name ("wallet", "llms.txt", "..")    *)
(* is one token.  A file is named by its path below BASE, a sequence of    *)
(* components, each a sequence of tokens; a file's bytes are named by the  *)
(* file, and only the files of TrackedFiles ever exist.  self.path is any  *)
(* target of the generator Targets, which includes targets that begin      *)
(* with "//" (kept by older http.server releases, collapsed to "/" by      *)
(* newer ones: both forms are targets).                                    *)
(***************************************************************************)
EXTENDS Integers, Sequences, FiniteSets, TLC

VARIABLES disk, routes, pending, inflight, pc, path, p, f, status, ctype, body, err

vars == <<disk, routes, pending, inflight, pc, path, p, f, status, ctype, body, err>>

\* ---------------------------------------------------------------- bounds
MaxSegs == 3
MaxPending == 1

\* ------------------------------------------------------------- constants
SL == "/"
LLMS == "llms.txt"
INDEX == "index.html"
None == <<>>
HTML == "text/html; charset=utf-8"
PLAIN == "text/plain; charset=utf-8"
OCTET == "application/octet-stream"

\* os.path.join(BASE, a, b): the path below BASE
Join2(a, b) == <<a, b>>

Idx(name) == Join2(<<name>>, <<INDEX>>)

ROUTES ==
    [k \in {<<SL>>} |-> Idx("agentstack")] @@
    [k \in {<<SL, n>> : n \in
        {"wallet", "spawn", "store", "vault", "dns", "email", "ring", "cron",
         "pipe", "pay", "mem", "infer", "watch", "browse", "auth", "code",
         "trace", "docs", "pins", "seek", "mart", "hive", "ads", "ship",
         "hands", "id", "corp"}} |-> Idx(k[2])]

\* ------------------------------------------------------ string primitives
Min(S) == CHOOSE i \in S : \A j \in S : i <= j
Max(S) == CHOOSE i \in S : \A j \in S : i >= j

\* str.find(c, start) over a set of characters, 1-based; 0 when absent
Find(s, C, start) ==
    LET I == {i \in start..Len(s) : s[i] \in C}
    IN IF I = {} THEN 0 ELSE Min(I)

\* str.rfind(c), 1-based; 0 when absent
RFind(s, c) ==
    LET I == {i \in 1..Len(s) : s[i] = c}
    IN IF I = {} THEN 0 ELSE Max(I)

EndsWith(s, suf) ==
    /\ Len(s) >= Len(suf)
    /\ SubSeq(s, Len(s) - Len(suf) + 1, Len(s)) = suf

RECURSIVE rstrip(_, _)
rstrip(s, c) ==
    IF s # <<>> /\ s[Len(s)] = c THEN rstrip(SubSeq(s, 1, Len(s) - 1), c) ELSE s

RECURSIVE lstrip(_, _)
lstrip(s, c) ==
    IF s # <<>> /\ s[1] = c THEN lstrip(SubSeq(s, 2, Len(s)), c) ELSE s

strip(s, c) == rstrip(lstrip(s, c), c)

RECURSIVE split(_, _)
split(s, c) ==
    LET i == Find(s, {c}, 1)
    IN IF i = 0 THEN <<s>>
       ELSE <<SubSeq(s, 1, i - 1)>> \o split(SubSeq(s, i + 1, Len(s)), c)

\* ---------------------------------------------------------------- urlparse
\* urlsplit: "//" opens a netloc that runs to the next "/", "?" or "#"
splitnetloc(url) ==
    IF Len(url) >= 2 /\ url[1] = SL /\ url[2] = SL
    THEN LET d == Find(url, {SL, "?", "#"}, 3)
         IN IF d = 0 THEN <<>> ELSE SubSeq(url, d, Len(url))
    ELSE url

\* variant: allow_fragments=False
splitfragment_off(url) == url

\* urlsplit: the fragment is cut at the first "#"
splitfragment(url) ==
    LET i == Find(url, {"#"}, 1)
    IN IF i = 0 THEN url ELSE SubSeq(url, 1, i - 1)

\* urlsplit: the query is cut at the first "?"
splitquery(url) ==
    LET i == Find(url, {"?"}, 1)
    IN IF i = 0 THEN url ELSE SubSeq(url, 1, i - 1)

\* urlparse: ";params" is cut from the last path segment only
splitparams(url) ==
    LET r == RFind(url, SL)
        i == Find(url, {";"}, IF r = 0 THEN 1 ELSE r)
    IN IF i = 0 THEN url ELSE SubSeq(url, 1, i - 1)

\* urlparse(self.path).path
urlpath(url) == splitparams(splitquery(splitfragment(splitnetloc(url))))

\* variant: the trailing slash is kept
normalize_keep(raw_path) ==
    IF raw_path = <<>> THEN <<SL>> ELSE raw_path

\* variant: one trailing slash is removed, not all of them
normalize_one(raw_path) ==
    LET s == IF raw_path # <<>> /\ raw_path[Len(raw_path)] = SL
             THEN SubSeq(raw_path, 1, Len(raw_path) - 1) ELSE raw_path
    IN IF s = <<>> THEN <<SL>> ELSE s

\* raw_path.rstrip("/") or "/"
normalize(raw_path) ==
    LET s == rstrip(raw_path, SL)
    IN IF s = <<>> THEN <<SL>> ELSE s

\* ------------------------------------------------------------ file system
\* the files the environment creates and deletes; no other file exists
TrackedFiles ==
    { Idx("agentstack"), Idx("wallet"),
      <<<<LLMS>>>>,
      Join2(<<"wallet">>, <<LLMS>>),
      Join2(<<"..">>, <<LLMS>>) }

\* os.path.exists(f)
exists(d, file) == file \in d

\* the bytes open(f, "rb").read() returns
Bytes(file) == <<file>>

NoBody == <<>>

\* ------------------------------------------------------------ the handler
\* variant: an unknown path falls back to the front page
_resolve_file_fallback(path_, rt, d) ==
    LET r == IF path_ \in DOMAIN rt THEN rt[path_] ELSE None
    IN IF r # None /\ exists(d, r) THEN r
       ELSE IF path_ = <<SL, LLMS>>
            THEN (IF exists(d, <<<<LLMS>>>>) THEN <<<<LLMS>>>> ELSE None)
       ELSE IF EndsWith(path_, <<SL, LLMS>>)
            THEN LET parts == split(strip(path_, SL), SL)
                 IN IF Len(parts) = 2
                    THEN LET primitive == parts[1]
                             g == Join2(primitive, <<LLMS>>)
                         IN IF exists(d, g) THEN g ELSE None
                    ELSE None
       ELSE IF exists(d, rt[<<SL>>]) THEN rt[<<SL>>] ELSE None

\* variant: any path with at least two segments is taken as <section>/llms.txt
_resolve_file_atleast2(path_, rt, d) ==
    LET r == IF path_ \in DOMAIN rt THEN rt[path_] ELSE None
    IN IF r # None /\ exists(d, r) THEN r
       ELSE IF path_ = <<SL, LLMS>>
            THEN (IF exists(d, <<<<LLMS>>>>) THEN <<<<LLMS>>>> ELSE None)
       ELSE IF EndsWith(path_, <<SL, LLMS>>)
            THEN LET parts == split(strip(path_, SL), SL)
                 IN IF Len(parts) >= 2
                    THEN LET primitive == parts[1]
                             g == Join2(primitive, <<LLMS>>)
                         IN IF exists(d, g) THEN g ELSE None
                    ELSE None
       ELSE None

\* variant: a route key resolves without the existence check
_resolve_file_nocheck(path_, rt, d) ==
    LET r == IF path_ \in DOMAIN rt THEN rt[path_] ELSE None
    IN IF r # None THEN r
       ELSE IF path_ = <<SL, LLMS>>
            THEN (IF exists(d, <<<<LLMS>>>>) THEN <<<<LLMS>>>> ELSE None)
       ELSE IF EndsWith(path_, <<SL, LLMS>>)
            THEN LET parts == split(strip(path_, SL), SL)
                 IN IF Len(parts) = 2
                    THEN LET primitive == parts[1]
                             g == Join2(primitive, <<LLMS>>)
                         IN IF exists(d, g) THEN g ELSE None
                    ELSE None
       ELSE None

_resolve_file(path_, rt, d) ==
    LET r == IF path_ \in DOMAIN rt THEN rt[path_] ELSE None
    IN IF r # None /\ exists(d, r) THEN r
       ELSE IF path_ = <<SL, LLMS>>
            THEN (IF exists(d, <<<<LLMS>>>>) THEN <<<<LLMS>>>> ELSE None)
       ELSE IF EndsWith(path_, <<SL, LLMS>>)
            THEN LET parts == split(strip(path_, SL), SL)
                 IN IF Len(parts) = 2
                    THEN LET primitive == parts[1]
                             g == Join2(primitive, <<LLMS>>)
                         IN IF exists(d, g) THEN g ELSE None
                    ELSE None
       ELSE None

\* str.endswith on the file name, by the name's last token
HtmlNames == {INDEX}
TxtNames == {LLMS}
LastToken(file) ==
    LET c == file[Len(file)] IN IF c = <<>> THEN "" ELSE c[Len(c)]

\* variant: the ".txt" branch is missing
_content_type_notxt(file) ==
    IF LastToken(file) \in HtmlNames THEN HTML ELSE OCTET

_content_type(file) ==
    IF LastToken(file) \in HtmlNames THEN HTML
    ELSE IF LastToken(file) \in TxtNames THEN PLAIN
    ELSE OCTET

\* -------------------------------------------------------- request targets
Names == {<<>>, <<"wallet">>, <<"nope">>, <<"..">>, <<LLMS>>}
Suffixes == {<<>>, <<"?", "x">>, <<"#", "x">>, <<";", "x">>,
             <<";", "x", "?", "x">>, <<"?", "x", "#", "x">>}

RECURSIVE JoinSegs(_)
JoinSegs(segs) ==
    IF segs = <<>> THEN <<>>
    ELSE IF Len(segs) = 1 THEN segs[1]
    ELSE segs[1] \o <<SL>> \o JoinSegs(Tail(segs))

SegLists == UNION {[1..n -> Names] : n \in 0..MaxSegs}

Targets == {<<SL>> \o JoinSegs(s) \o q : s \in SegLists, q \in Suffixes}

\* ------------------------------------------------------------------- Init
Init ==
    /\ disk = {}
    /\ routes = ROUTES
    /\ pending = 0
    /\ inflight = 0
    /\ pc = "select"
    /\ path = <<>>
    /\ p = <<>>
    /\ f = None
    /\ status = 0
    /\ ctype = ""
    /\ body = NoBody
    /\ err = FALSE

locals == <<path, p, f, status, ctype, body, err>>
server == <<pending, inflight, pc>>

\* ------------------------------------------------------------ environment
\* a client connects and waits in the listen backlog
Connect ==
    /\ pending < MaxPending
    /\ pending' = pending + 1
    /\ UNCHANGED <<disk, routes, inflight, pc, locals>>

CreateFile(x) ==
    /\ x \notin disk
    /\ disk' = disk \cup {x}
    /\ UNCHANGED <<routes, server, locals>>

DeleteFile(x) ==
    /\ x \in disk
    /\ disk' = disk \ {x}
    /\ UNCHANGED <<routes, server, locals>>

\* the handler is not between its first and last step
Quiet == pc \in {"select", "read"}

QuietCreate == Quiet /\ \E x \in TrackedFiles : CreateFile(x)
QuietDelete == Quiet /\ \E x \in TrackedFiles : DeleteFile(x)
RaceCreate == \E x \in TrackedFiles : CreateFile(x)
RaceDelete == \E x \in TrackedFiles : DeleteFile(x)

\* ----------------------------------------------------------------- server
\* variant: a threading server accepts while a handler is still running
get_request_threaded ==
    /\ pending > 0
    /\ pending' = pending - 1
    /\ inflight' = inflight + 1
    /\ pc' = "read"
    /\ UNCHANGED <<disk, routes, locals>>

\* serve_forever: accept one connection when no request is being handled
get_request ==
    /\ pc = "select"
    /\ pending > 0
    /\ pending' = pending - 1
    /\ inflight' = inflight + 1
    /\ pc' = "read"
    /\ UNCHANGED <<disk, routes, locals>>

\* variant: ROUTES.pop(path, None) in place of ROUTES.get(path)
do_GET_head_pop ==
    /\ pc = "read"
    /\ \E t \in Targets : path' = t
    /\ LET raw_path == urlpath(path')
           np == normalize(raw_path)
           r == _resolve_file(np, routes, disk)
       IN /\ p' = np
          /\ f' = r
          /\ routes' = [k \in DOMAIN routes \ {np} |-> routes[k]]
          /\ IF r # None
             THEN /\ status' = 200
                  /\ ctype' = _content_type(r)
                  /\ pc' = "open"
             ELSE /\ status' = 404
                  /\ ctype' = ""
                  /\ pc' = "finish"
    /\ UNCHANGED <<disk, pending, inflight, body, err>>

\* the request line is read (self.path), then do_GET up to end_headers
do_GET_head ==
    /\ pc = "read"
    /\ \E t \in Targets :
          LET raw_path == urlpath(t)
              np == normalize(raw_path)
              r == _resolve_file(np, routes, disk)
          IN /\ path' = t
             /\ p' = np
             /\ f' = r
             /\ IF r # None
                THEN /\ status' = 200
                     /\ ctype' = _content_type(r)
                     /\ pc' = "open"
                ELSE /\ status' = 404
                     /\ ctype' = ""
                     /\ pc' = "finish"
    /\ UNCHANGED <<disk, routes, pending, inflight, body, err>>

\* with open(f, "rb") as fh: self.wfile.write(fh.read())
do_GET_body ==
    /\ pc = "open"
    /\ IF exists(disk, f)
       THEN body' = Bytes(f) /\ err' = FALSE
       ELSE body' = NoBody /\ err' = TRUE
    /\ pc' = "finish"
    /\ UNCHANGED <<disk, routes, pending, inflight, path, p, f, status, ctype>>

\* shutdown_request: the connection is closed, the handler object dropped
shutdown_request ==
    /\ pc = "finish"
    /\ inflight' = inflight - 1
    /\ pc' = "select"
    /\ path' = <<>>
    /\ p' = <<>>
    /\ f' = None
    /\ status' = 0
    /\ ctype' = ""
    /\ body' = NoBody
    /\ err' = FALSE
    /\ UNCHANGED <<disk, routes, pending>>

Next ==
    \/ Connect
    \/ QuietCreate
    \/ QuietDelete
    \/ get_request
    \/ do_GET_head
    \/ do_GET_body
    \/ shutdown_request

NextRace ==
    \/ Connect
    \/ RaceCreate
    \/ RaceDelete
    \/ get_request
    \/ do_GET_head
    \/ do_GET_body
    \/ shutdown_request

Spec == Init /\ [][Next]_vars

SpecRace == Init /\ [][NextRace]_vars


\* ======================================================================
\* Properties
\* ======================================================================
Done == pc = "finish"

TOP == <<<<LLMS>>>>

\* the response the handler produces for self.path = t on disk d, as one value
Serve(t, d) ==
    LET r == _resolve_file(normalize(urlpath(t)), ROUTES, d)
    IN IF r = None THEN <<None, 404, "", NoBody>>
       ELSE <<r, 200, _content_type(r), Bytes(r)>>

Response == <<f, status, ctype, body>>

\* s is /<section>/llms.txt with one section name (leading slashes do not
\* open a segment, as in the handler's own count)
IsSectionLlms(s) ==
    LET t == lstrip(s, SL)
    IN /\ Len(s) > Len(t)
       /\ Len(t) >= 3
       /\ t[Len(t)] = LLMS
       /\ t[Len(t) - 1] = SL
       /\ \A i \in 1..(Len(t) - 2) : t[i] # SL

SectionOf(s) == LET t == lstrip(s, SL) IN SubSeq(t, 1, Len(t) - 2)

\* C1: for every route key k whose mapped file exists, GET k and GET k/ return
\* 200, Content-Type text/html; charset=utf-8 and the bytes of the mapped file.
C1_RouteServed ==
    /\ \A k \in DOMAIN ROUTES :
          (Done /\ path \in {k, k \o <<SL>>} /\ ROUTES[k] \in disk)
             => /\ status = 200
                /\ ctype = HTML
                /\ body = Bytes(ROUTES[k])
                /\ ~err
    /\ (pc = "read" /\ pending = 0)
          => \A k \in DOMAIN ROUTES : \A t \in {k, k \o <<SL>>} :
                Serve(t, {ROUTES[k]}) = <<ROUTES[k], 200, HTML, Bytes(ROUTES[k])>>

C1_Witness ==
    /\ Done
    /\ path = <<SL, "wallet", SL>>
    /\ status = 200
    /\ ctype = HTML
    /\ body = Bytes(Idx("wallet"))

\* C2: a request whose normalized path is neither a route key nor /llms.txt
\* nor /<section>/llms.txt returns 404 with an empty body, whatever is on disk.
C2_UnknownIs404 ==
    (Done /\ p \notin DOMAIN ROUTES /\ p # <<SL, LLMS>> /\ ~IsSectionLlms(p))
       => /\ status = 404
          /\ body = NoBody
          /\ f = None
          /\ ~err

C2_Witness ==
    /\ Done
    /\ path = <<SL, "nope">>
    /\ status = 404
    /\ body = NoBody
    /\ disk = TrackedFiles

\* C3: GET /llms.txt returns 200, text/plain and the bytes of the top-level
\* llms.txt exactly when that file exists, and 404 when it does not.
C3_TopLlms ==
    (Done /\ p = <<SL, LLMS>>)
       => IF TOP \in disk
          THEN status = 200 /\ ctype = PLAIN /\ body = Bytes(TOP) /\ ~err
          ELSE status = 404 /\ body = NoBody

C3_Witness ==
    /\ Done
    /\ path = <<SL, LLMS>>
    /\ status = 200
    /\ ctype = PLAIN
    /\ body = Bytes(TOP)

\* C4: a path ending in /llms.txt other than /llms.txt is answered 200
\* (text/plain, bytes of <section>/llms.txt) exactly when it has two segments
\* and <section>/llms.txt exists; three segments always give 404.
C4_SectionLlms ==
    (Done /\ EndsWith(p, <<SL, LLMS>>) /\ p # <<SL, LLMS>>)
       => /\ status = 200 <=>
                (IsSectionLlms(p) /\ Join2(SectionOf(p), <<LLMS>>) \in disk)
          /\ status = 200 =>
                /\ ctype = PLAIN
                /\ body = Bytes(Join2(SectionOf(p), <<LLMS>>))
                /\ ~err
          /\ status # 200 => (status = 404 /\ body = NoBody)
          /\ Len(split(SubSeq(p, 2, Len(p)), SL)) >= 3 => status = 404

C4_Witness ==
    /\ Done
    /\ path = <<SL, "wallet", SL, "nope", SL, LLMS>>
    /\ status = 404
    /\ disk = TrackedFiles

\* C5 as stated: normalization removes one trailing slash, at most one.
StripOneSlash(s) ==
    LET t == IF s # <<>> /\ s[Len(s)] = SL THEN SubSeq(s, 1, Len(s) - 1) ELSE s
    IN IF t = <<>> THEN <<SL>> ELSE t

C5_StripsOne ==
    pc \in {"open", "finish"} => p = StripOneSlash(urlpath(path))

\* C5 amended: normalization removes every trailing slash of the path
\* component and gives / when nothing is left; the route table is looked up
\* with that normalized path.
C5_StripsAll ==
    pc \in {"open", "finish"} =>
       LET raw == urlpath(path)
       IN /\ p # <<>>
          /\ p = <<SL>> \/ p[Len(p)] # SL
          /\ \/ /\ Len(raw) >= Len(p)
                /\ SubSeq(raw, 1, Len(p)) = p
                /\ \A i \in (Len(p) + 1)..Len(raw) : raw[i] = SL
             \/ /\ p = <<SL>>
                /\ \A i \in 1..Len(raw) : raw[i] = SL
          /\ (p \in DOMAIN ROUTES /\ ROUTES[p] \in disk) => f = ROUTES[p]

C5_Witness ==
    /\ Done
    /\ path = <<SL, "wallet", SL, SL>>
    /\ p = <<SL, "wallet">>
    /\ f = Idx("wallet")
    /\ status = 200

\* C6: a target with a query string or a fragment appended resolves to the
\* same file and gets the same status, Content-Type and body as the target
\* alone, on the same disk.
Queries == {<<"?", "x">>, <<"#", "x">>}

C6_QueryIgnored ==
    \A q \in Queries :
       (Done /\ EndsWith(path, q))
          => Response = Serve(SubSeq(path, 1, Len(path) - Len(q)), disk)

C6_Witness ==
    /\ Done
    /\ path = <<SL, "wallet", "#", "x">>
    /\ status = 200
    /\ body = Bytes(Idx("wallet"))

C8_Stateless ==
    /\ [](Done => (Response = Serve(path, disk) /\ ~err))
    /\ [](routes = ROUTES)
    /\ [][pc' # pc => (disk' = disk /\ routes' = routes)]_vars

C8_Witness ==
    /\ Done
    /\ status = 200
    /\ pending > 0
    /\ routes = ROUTES
    /\ Response = Serve(path, disk)

\* C9: requests are served one at a time: a connection is accepted only when
\* no request is being handled.
C9_OneAtATime ==
    /\ inflight \in {0, 1}
    /\ inflight = 1 <=> pc # "select"

C9_Witness ==
    /\ pc = "open"
    /\ inflight = 1
    /\ pending > 0

\* C10: the file served with a 200 lies inside the base directory: a value of
\* the route table, the top-level llms.txt, or llms.txt in a direct
\* subdirectory.
InsideBase(file) ==
    \/ \E k \in DOMAIN ROUTES : file = ROUTES[k]
    \/ file = TOP
    \/ /\ Len(file) = 2
       /\ file[2] = <<LLMS>>
       /\ file[1] \notin {<<>>, <<".">>, <<"..">>}

C10_InsideBase ==
    (Done /\ status = 200) => InsideBase(f)
====
